---- MODULE Spec2Model ----
(***************************************************************************)
(* PlannerAgent (sources/agents/planner_agent.py): plan negotiation        *)
(* (make_plan), plan decoding (parse_agent_tasks), replanning              *)
(* (update_plan) and the orchestration loop (process), together with the   *)
(* /stop endpoint of api.py.                                               *)
(*                                                                         *)
(* Python values are represented as follows.  A dict is a record whose     *)
(* DOMAIN is the set of keys present, so `"need" in task` is               *)
(* "need" \in DOMAIN task.  A list is a sequence (Python index k is TLA+   *)
(* index k+1).  A model text is abstracted to the features the code reads: *)
(* whether it contains NO_UPDATE, its lines, its ```json blocks and the    *)
(* slice from the first "{" to the last "}".                               *)
(***************************************************************************)
EXTENDS Integers, Sequences, FiniteSets, TLC

VARIABLES
    pc,                 \* position of the running coroutine
    caller,             \* who called update_plan: "process" or "direct"
    stop,               \* Agent.stop, set by request_stop
    stop_at,            \* where the run was when stop was first requested ("": never)
    agents_tasks,       \* process: the working plan, a list of [task_name, task]
    agents_work_result, \* process: the Result Store, task id -> answer
    i,                  \* process: loop index
    steps,              \* process: len(agents_tasks) as last computed
    required_infos,     \* process: dependency context of the current dispatch
    answer,             \* process: answer of the last completed dispatch (<<>>: unbound)
    success,            \* process: success flag of the last completed dispatch
    ret,                \* process: returned answer (<<>>: nothing returned)
    fault,              \* exception that left the coroutine ("none": no exception)
    retries,            \* make_plan: attempts made
    prompt,             \* make_plan: instruction of the next attempt
    llm_calls,          \* make_plan: llm_request invocations of the current call
    mp_log,             \* make_plan: responses received by the current call
    mp_done,            \* make_plan: TRUE once the current call returned
    mp_ret,             \* make_plan: value returned by the current call
    up_id,              \* update_plan: argument id
    tool_success_str,   \* update_plan: "success" / "failure" ("": not entered)
    next_task,          \* update_plan: the next-task note of the directive
    plan,               \* update_plan: result of its make_plan call
    up_ret,             \* update_plan: returned plan
    dispatched,         \* executor invocations begun, as <<index, task>>
    completed,          \* number of executor invocations that returned
    replan_log,         \* one entry per update_plan call: "pending", then its outcome
    initial_plan,       \* plan returned by the initial negotiation
    parse_text,         \* parse_agent_tasks called on its own: its argument
    parse_result,       \* parse_agent_tasks called on its own: its result
    carried,            \* TRUE once a run began after a run that left results
    is_generating,      \* api.py: the global flag of the /query handler
    handlers,           \* api.py: /query request -> where its handler is
    query_resp_history, \* api.py: the global list, as the requests appended
    current_agent,      \* api.py: interaction.current_agent
    content             \* api.py: /query request -> what its response says

vars == <<pc, caller, stop, stop_at, agents_tasks, agents_work_result, i, steps,
          required_infos, answer, success, ret, fault, retries, prompt,
          llm_calls, mp_log, mp_done, mp_ret, up_id, tool_success_str,
          next_task, plan, up_ret, dispatched, completed, replan_log,
          initial_plan, parse_text, parse_result, carried, is_generating,
          handlers, query_resp_history, current_agent, content>>

\* the state of api.py
api_vars == <<is_generating, handlers, query_resp_history, current_agent, content>>

(***************************************************************************)
(* Bounds of the model.                                                    *)
(***************************************************************************)
\* longest plan a model response carries
MaxPlanLen == 2

(***************************************************************************)
(* Strings and numbers.                                                    *)
(***************************************************************************)
\* str.lower() on the agent names that occur
Lower(s) ==
    CASE s = "Coder"   -> "coder"
      [] s = "CODER"   -> "coder"
      [] s = "Web"     -> "web"
      [] s = "File"    -> "file"
      [] s = "Casual"  -> "casual"
      [] s = "Planner" -> "planner"
      [] s = "PLANNER" -> "planner"
      [] s = "Bogus"   -> "bogus"
      [] OTHER         -> s

DecimalStr == <<"1", "2", "3", "4", "5", "6", "7", "8", "9">>

\* str(n) for 0 <= n <= 9
Str(n) == IF n = 0 THEN "0" ELSE DecimalStr[n]

\* int(s) succeeds
IsInt(s) == s = "0" \/ s = "-1" \/ \E n \in 1..9 : DecimalStr[n] = s

\* int(s), where it succeeds
IntOf(s) ==
    IF s = "0" THEN 0
    ELSE IF s = "-1" THEN -1
    ELSE CHOOSE n \in 1..9 : DecimalStr[n] = s

\* self.agents.keys()
AgentKeys == {"coder", "file", "web", "casual"}

max_retries == 3

(***************************************************************************)
(* get_task_names: the stripped non-empty lines that contain "##" or       *)
(* begin with a digit.  A line is [name, hash, digit, kws]: its stripped   *)
(* text, whether it contains "##", whether it begins with a digit, and the *)
(* keywords its lower-cased text contains.                                 *)
(***************************************************************************)
IsTaskName(line) == line.name # "" /\ (line.hash \/ line.digit)

RECURSIVE get_task_names_from(_, _)
get_task_names_from(lines, k) ==
    IF k > Len(lines) THEN <<>>
    ELSE IF IsTaskName(lines[k])
         THEN <<lines[k]>> \o get_task_names_from(lines, k + 1)
         ELSE get_task_names_from(lines, k + 1)

get_task_names(text) == get_task_names_from(text.lines, 1)

(***************************************************************************)
(* parse_agent_tasks.  A block is [parse |-> "fail"] (neither json.loads   *)
(* nor ast.literal_eval accepts it), [parse |-> "ok"] (a value without a   *)
(* "plan" key) or [parse |-> "ok", plan |-> items].  An item is a dict     *)
(* (record) or the non-dict value NonDict.                                 *)
(***************************************************************************)
NonDict == [nondict |-> TRUE]

IsDict(item) == "nondict" \notin DOMAIN item

\* a value of the "agent" field that is no str (a number, a list, null)
NotAString == "<not a str>"

\* line 130: task.get("agent", "").lower() raises AttributeError
LowerRaises(item) == "agent" \in DOMAIN item /\ item.agent = NotAString

NoBrace == [parse |-> "none"]

\* lines 93-104: the ```json blocks, else the "{" .. "}" slice if there is one
CandidateBlocks(text) ==
    IF text.blocks # <<>> THEN text.blocks
    ELSE IF text.brace # NoBrace THEN <<text.brace>>
    ELSE <<>>

\* mutant: the agent name is compared without lower-casing it
CheckedItemCaseSensitive(item) ==
    LET given      == IF "agent" \in DOMAIN item THEN item.agent ELSE ""
        agent_name == IF given = "planner" THEN "casual" ELSE given
    IN  IF agent_name \notin AgentKeys
        THEN [k \in DOMAIN item \cup {"agent"} |->
                 IF k = "agent" THEN "Casual" ELSE item[k]]
        ELSE item

\* lines 130-138: the item after the agent check (task["agent"] = "Casual"
\* is written only when the lower-cased name, with planner read as casual,
\* is not a key of self.agents)
CheckedItem(item) ==
    LET given      == IF "agent" \in DOMAIN item THEN item.agent ELSE ""
        lowered    == Lower(given)
        agent_name == IF lowered = "planner" THEN "casual" ELSE lowered
    IN  IF agent_name \notin AgentKeys
        THEN [k \in DOMAIN item \cup {"agent"} |->
                 IF k = "agent" THEN "Casual" ELSE item[k]]
        ELSE item

\* mutant: the dependency list of the item is not copied
AgentDictNoNeed(item, count) ==
    [agent |-> IF "agent" \in DOMAIN item THEN item.agent ELSE "Casual",
     id    |-> IF "id" \in DOMAIN item THEN item.id ELSE Str(count + 1),
     task  |-> item.task]

\* lines 140-146: the task dict built from a checked item that has "task"
AgentDict(item, count) ==
    LET base == [agent |-> IF "agent" \in DOMAIN item THEN item.agent ELSE "Casual",
                 id    |-> IF "id" \in DOMAIN item THEN item.id ELSE Str(count + 1),
                 task  |-> item.task]
    IN  IF "need" \in DOMAIN item
        THEN [k \in {"agent", "id", "task", "need"} |->
                 IF k = "need" THEN item.need ELSE base[k]]
        ELSE base

\* mutant: an item without "task" ends the decoding of its block
RECURSIVE DecodeItemsStopAtMissing(_, _, _)
DecodeItemsStopAtMissing(tasks, items, k) ==
    IF k > Len(items) THEN tasks
    ELSE IF ~IsDict(items[k]) \/ LowerRaises(items[k]) THEN tasks
    ELSE LET item == CheckedItem(items[k])
         IN  IF "task" \in DOMAIN item
             THEN DecodeItemsStopAtMissing(Append(tasks, AgentDict(item, Len(tasks))),
                                           items, k + 1)
             ELSE tasks

\* mutant: an item that is no dict, or whose agent is no string, is skipped
\* and the items after it are decoded
RECURSIVE DecodeItemsSkipRaising(_, _, _)
DecodeItemsSkipRaising(tasks, items, k) ==
    IF k > Len(items) THEN tasks
    ELSE IF ~IsDict(items[k]) \/ LowerRaises(items[k])
         THEN DecodeItemsSkipRaising(tasks, items, k + 1)
    ELSE LET item == CheckedItem(items[k])
         IN  IF "task" \in DOMAIN item
             THEN DecodeItemsSkipRaising(Append(tasks, AgentDict(item, Len(tasks))),
                                         items, k + 1)
             ELSE DecodeItemsSkipRaising(tasks, items, k + 1)

\* lines 129-149: the items of one plan list, from item k on.  An item
\* that is no dict, or whose agent is no string, raises out of the for loop
\* (caught at line 150), ending the block; an item without "task" raises
\* inside the inner try and is skipped.
RECURSIVE DecodeItems(_, _, _)
DecodeItems(tasks, items, k) ==
    IF k > Len(items) THEN tasks
    ELSE IF ~IsDict(items[k]) \/ LowerRaises(items[k]) THEN tasks
    ELSE LET item == CheckedItem(items[k])
         IN  IF "task" \in DOMAIN item
             THEN DecodeItems(Append(tasks, AgentDict(item, Len(tasks))), items, k + 1)
             ELSE DecodeItems(tasks, items, k + 1)

\* lines 106-152: one block
DecodeBlock(tasks, block) ==
    IF block.parse = "ok" /\ "plan" \in DOMAIN block
    THEN DecodeItems(tasks, block.plan, 1)
    ELSE tasks

\* mutant: a block that does not parse ends the decoding of the text
RECURSIVE DecodeBlocksAbort(_, _, _)
DecodeBlocksAbort(tasks, blocks, k) ==
    IF k > Len(blocks) THEN tasks
    ELSE IF blocks[k].parse = "fail" THEN tasks
    ELSE DecodeBlocksAbort(DecodeBlock(tasks, blocks[k]), blocks, k + 1)

\* lines 106-152: the blocks one after another
RECURSIVE DecodeBlocks(_, _, _)
DecodeBlocks(tasks, blocks, k) ==
    IF k > Len(blocks) THEN tasks
    ELSE DecodeBlocks(DecodeBlock(tasks, blocks[k]), blocks, k + 1)

\* mutant: "python" is not a keyword
AgentTypeNoPython(line) ==
    IF line.kws \cap {"code", "script"} # {} THEN "Coder"
    ELSE IF line.kws \cap {"search", "web", "internet"} # {} THEN "Web"
    ELSE IF line.kws \cap {"file", "folder"} # {} THEN "File"
    ELSE "Casual"

\* lines 171-178
AgentType(line) ==
    IF line.kws \cap {"code", "script", "python"} # {} THEN "Coder"
    ELSE IF line.kws \cap {"search", "web", "internet"} # {} THEN "Web"
    ELSE IF line.kws \cap {"file", "folder"} # {} THEN "File"
    ELSE "Casual"

\* mutant: the synthesized tasks are not chained
TextTasksNoChain(tasks_names) ==
    [k \in 1..Len(tasks_names) |->
        [agent |-> AgentType(tasks_names[k]),
         id    |-> Str(k),
         task  |-> tasks_names[k].name,
         need  |-> <<>>]]

\* lines 170-187
TextTasks(tasks_names) ==
    [k \in 1..Len(tasks_names) |->
        [agent |-> AgentType(tasks_names[k]),
         id    |-> Str(k),
         task  |-> tasks_names[k].name,
         need  |-> IF k - 1 > 0 THEN <<Str(k - 1)>> ELSE <<>>]]

\* lines 85-198
parse_agent_tasks(text) ==
    LET tasks_names == get_task_names(text)
        decoded     == DecodeBlocks(<<>>, CandidateBlocks(text), 1)
        tasks       == IF Len(decoded) = 0 /\ Len(tasks_names) > 0
                       THEN TextTasks(tasks_names)
                       ELSE decoded
    IN  [k \in 1..Len(tasks) |-> <<tasks[k].task, tasks[k]>>]

(***************************************************************************)
(* Model responses and executor outcomes the environment may produce.      *)
(***************************************************************************)
Line(name, hash, digit, kws) ==
    [name |-> name, hash |-> hash, digit |-> digit, kws |-> kws]

Text(marker, lines, blocks) ==
    [marker |-> marker, lines |-> lines, blocks |-> blocks, brace |-> NoBrace]

PlanBlock(items) == [parse |-> "ok", plan |-> items]

Prose == Line("Here is what I think", FALSE, FALSE, {})

StdAgents == <<"Coder", "web", "File", "casual">>
StdDescs  == <<"write script", "search web", "save file", "summarize">>
AltDescs  == <<"retry script", "retry search", "retry save", "retry summary">>

Cycle(seq, k) == seq[((k - 1) % Len(seq)) + 1]

\* a well-formed payload item with every field
StdItem(k) ==
    [agent |-> Cycle(StdAgents, k), id |-> Str(k), task |-> Cycle(StdDescs, k),
     need  |-> IF k = 1 THEN <<>> ELSE <<Str(k - 1)>>]

\* a well-formed payload item without id, with other contents than
\* StdItem(k); the first one depends on the task after it
AltItem(k) ==
    [agent |-> "casual", task |-> Cycle(AltDescs, k),
     need  |-> IF k = 1 THEN <<"2">> ELSE <<>>]

PlanText(n) == Text(FALSE, <<Prose>>, <<PlanBlock([k \in 1..n |-> StdItem(k)])>>)

AltText(n) == Text(FALSE, <<Prose>>, <<PlanBlock([k \in 1..n |-> AltItem(k)])>>)

\* no marker, no payload, no heading line
Garbage == Text(FALSE, <<Prose>>, <<>>)

NoUpdate == Text(TRUE, <<Prose>>, <<>>)

\* the marker together with a well-formed payload
NoUpdateWithPlan == Text(TRUE, <<Prose>>, <<PlanBlock(<<StdItem(1), StdItem(2)>>)>>)

HeadingText ==
    Text(FALSE,
         <<Line("1. Search the web for X", FALSE, TRUE, {"search", "web"}),
           Line("", FALSE, FALSE, {}),
           Line("2. Summarize results", FALSE, TRUE, {})>>,
         <<>>)

\* a task with a non-numeric id and an unresolved dependency, then a task
\* without id and without need
OddText ==
    Text(FALSE, <<Prose>>,
         <<PlanBlock(<<[agent |-> "CODER", id |-> "abc", task |-> "fix bug",
                        need |-> <<"9">>],
                       [agent |-> "web", task |-> "browse docs"]>>)>>)

\* a task assigned to the planner itself
SelfText ==
    Text(FALSE, <<Prose>>,
         <<PlanBlock(<<[agent |-> "Planner", id |-> "1", task |-> "think",
                        need |-> <<>>]>>)>>)

\* a plan whose ids are not the 1-based positions of its tasks
SwappedText ==
    Text(FALSE, <<Prose>>,
         <<PlanBlock(<<[agent |-> "Coder", id |-> "2", task |-> "write script",
                        need |-> <<>>],
                       [agent |-> "web", id |-> "1", task |-> "search web",
                        need |-> <<"2">>]>>)>>)

Responses ==
    {Garbage, NoUpdate, NoUpdateWithPlan, HeadingText, OddText, SelfText}
    \cup {PlanText(n) : n \in 1..MaxPlanLen}
    \cup {AltText(n) : n \in 1..MaxPlanLen}

\* raw answers of an executor (its verdict is the success flag)
RawAnswers == {"out"}

\* mutant: the marker does not depend on the executor's verdict
SuccessMarkerSucceeded(succ) == "\nAgent succeeded with task."

\* lines 375-379: the marker appended to the executor's raw answer
SuccessMarker(succ) ==
    IF succ THEN "\nAgent succeeded with task."
    ELSE "\nAgent failed with task (Error detected)."

\* lines 368-380: raw answer + marker
AgentAnswer(raw, succ) == <<raw, SuccessMarker(succ)>>

Answers == {AgentAnswer(raw, succ) : raw \in RawAnswers, succ \in BOOLEAN}

None == [none |-> TRUE]

NoNote == [kind |-> "unset"]

(***************************************************************************)
(* make_plan                                                               *)
(***************************************************************************)
\* mutant: the retry bound is off by one
AttemptResultOneMore(text, r) ==
    IF text.marker THEN [done |-> TRUE, value |-> <<>>]
    ELSE IF parse_agent_tasks(text) = <<>>
         THEN [done |-> ~(r <= max_retries), value |-> <<>>]
         ELSE [done |-> TRUE, value |-> parse_agent_tasks(text)]

\* mutant: the payload is decoded before the marker is looked for
AttemptResultParseFirst(text, r) ==
    IF parse_agent_tasks(text) # <<>>
    THEN [done |-> TRUE, value |-> parse_agent_tasks(text)]
    ELSE IF text.marker THEN [done |-> TRUE, value |-> <<>>]
    ELSE [done |-> ~(r < max_retries), value |-> <<>>]

\* mutant: the negotiation always uses up its attempts
AttemptResultExhausts(text, r) ==
    IF text.marker THEN [done |-> TRUE, value |-> <<>>]
    ELSE [done |-> ~(r < max_retries), value |-> parse_agent_tasks(text)]

\* line 262: the plan parse_agent_tasks decodes from each response of the
\* model
ResponsePlans ==
    [text \in Responses \cup {SwappedText} |-> parse_agent_tasks(text)]

\* lines 260-272 for the attempt numbered r: whether the while loop ends
\* and with which plan
AttemptResult(text, r) ==
    IF text.marker THEN [done |-> TRUE, value |-> <<>>]
    ELSE IF ResponsePlans[text] = <<>>
         THEN [done |-> ~(r < max_retries), value |-> <<>>]
         ELSE [done |-> TRUE, value |-> ResponsePlans[text]]

\* lines 251-254
MakePlanEnter(p) ==
    /\ retries' = 0
    /\ prompt' = p
    /\ llm_calls' = 0
    /\ mp_log' = <<>>
    /\ mp_done' = FALSE
    /\ mp_ret' = <<>>

\* lines 256-259 and the return at 261, 282 or 285
MakePlanReturn(text, value) ==
    /\ retries' = retries + 1
    /\ llm_calls' = llm_calls + 1
    /\ mp_log' = Append(mp_log, text)
    /\ mp_done' = TRUE
    /\ mp_ret' = value
    /\ UNCHANGED prompt

\* make_plan is awaiting llm_request
Negotiating == pc \in {"make_plan", "replan"} /\ ~mp_done

\* lines 255-270: an attempt that yields nothing, with attempts left
MakePlanRetry(text) ==
    /\ Negotiating
    /\ ~AttemptResult(text, retries + 1).done
    /\ retries' = retries + 1
    /\ llm_calls' = llm_calls + 1
    /\ mp_log' = Append(mp_log, text)
    /\ prompt' = "corrective"
    /\ UNCHANGED <<pc, caller, parse_text, parse_result, carried, api_vars,
                   stop, stop_at, agents_tasks, agents_work_result, i, steps,
                   required_infos, answer, success, ret, fault, mp_done, mp_ret,
                   up_id, tool_success_str, next_task, plan, up_ret, dispatched,
                   completed, replan_log, initial_plan>>

\* mutant: a model exception counts as a failed attempt and is retried
ModelFaultRetried ==
    /\ Negotiating
    /\ retries' = retries + 1
    /\ llm_calls' = llm_calls + 1
    /\ fault' = "ModelFault"
    /\ UNCHANGED <<pc, caller, parse_text, parse_result, carried, api_vars,
                   stop, stop_at, agents_tasks, agents_work_result, i, steps,
                   required_infos, answer, success, ret, prompt, mp_log, mp_done,
                   mp_ret, up_id, tool_success_str, next_task, plan, up_ret,
                   dispatched, completed, replan_log, initial_plan>>

\* line 259: llm_request raises
ModelFault ==
    /\ Negotiating
    /\ retries' = retries + 1
    /\ llm_calls' = llm_calls + 1
    /\ fault' = "ModelFault"
    /\ pc' = "fault"
    /\ UNCHANGED <<caller, parse_text, parse_result, carried, api_vars,
                   stop, stop_at, agents_tasks, agents_work_result, i, steps,
                   required_infos, answer, success, ret, prompt, mp_log, mp_done,
                   mp_ret, up_id, tool_success_str, next_task, plan, up_ret,
                   dispatched, completed, replan_log, initial_plan>>

(***************************************************************************)
(* update_plan                                                             *)
(***************************************************************************)
\* lines 305-315: what happens before the directive is composed
UpdatePlanEntry(tasks, results, id) ==
    IF id \notin DOMAIN results THEN "KeyError"
    ELSE IF ~IsInt(id) THEN "skip"
    ELSE "negotiate"

\* agents_tasks[id_int][0], Python indexing (negative indices count from the end)
InRange(tasks, id_int) == -Len(tasks) <= id_int /\ id_int < Len(tasks)

PyIndex(tasks, id_int) ==
    IF id_int >= 0 THEN tasks[id_int + 1] ELSE tasks[Len(tasks) + id_int + 1]

\* lines 316-322
NextTaskNote(tasks, id_int) ==
    IF id_int = Len(tasks) THEN [kind |-> "last"]
    ELSE IF InRange(tasks, id_int)
         THEN [kind |-> "next", name |-> PyIndex(tasks, id_int)[1]]
         ELSE [kind |-> "none"]

\* mutant: the verdict given to the replanner ignores the success flag
ToolSuccessStrAlways(succ) == "success"

\* line 306
ToolSuccessStr(succ) == IF succ THEN "success" ELSE "failure"

\* mutant: an empty negotiated plan replaces the working plan
UpdatePlanResultAlways(negotiated, tasks) == negotiated

\* mutant: the tasks up to the completed one are kept, only later positions
\* are taken from the negotiated plan
UpdatePlanResultMerge(negotiated, tasks) ==
    IF negotiated = <<>> THEN tasks
    ELSE [k \in 1..Len(negotiated) |->
             IF k <= i + 1 /\ k <= Len(tasks) THEN tasks[k] ELSE negotiated[k]]

\* mutant: the loop index is not advanced
NextIndexStays(index) == index

\* line 435
NextIndex(index) == index + 1

\* lines 343-347: the plan update_plan returns after its negotiation
UpdatePlanResult(negotiated, tasks) ==
    IF negotiated = <<>> THEN tasks ELSE negotiated

\* lines 304-342 up to the first model call, for the given arguments; the
\* caller's own variables are left to the caller
UpdatePlanEnter(tasks, results, id, succ) ==
    /\ up_id' = id
    /\ plan' = <<>>
    /\ CASE UpdatePlanEntry(tasks, results, id) = "KeyError" ->
              /\ pc' = "fault"
              /\ fault' = "KeyError"
              /\ UNCHANGED <<tool_success_str, next_task, up_ret, replan_log,
                             retries, prompt, llm_calls, mp_log, mp_done, mp_ret>>
         [] UpdatePlanEntry(tasks, results, id) = "skip" ->
              /\ tool_success_str' = ToolSuccessStr(succ)
              /\ up_ret' = tasks
              /\ replan_log' = Append(replan_log, "skip")
              /\ pc' = (IF caller = "process" THEN "loop" ELSE "returned")
              /\ UNCHANGED <<fault, next_task, retries, prompt, llm_calls,
                             mp_log, mp_done, mp_ret>>
         [] OTHER ->
              /\ tool_success_str' = ToolSuccessStr(succ)
              /\ next_task' = NextTaskNote(tasks, IntOf(id))
              /\ pc' = "replan"
              /\ replan_log' = Append(replan_log, "pending")
              /\ MakePlanEnter("update")
              /\ UNCHANGED <<fault, up_ret>>

\* update_plan called on its own (not from process)
UpdatePlanCall ==
    /\ pc = "update_plan"
    /\ caller = "direct"
    /\ UpdatePlanEnter(agents_tasks, agents_work_result, up_id, success)
    /\ UNCHANGED <<caller, parse_text, parse_result, carried, api_vars,
                   stop, stop_at, agents_tasks, agents_work_result, i, steps,
                   required_infos, answer, success, ret, dispatched, completed,
                   initial_plan>>

\* lines 342-347 and, when called from process, lines 431-435
Replanned(text) ==
    /\ pc = "replan"
    /\ Negotiating
    /\ AttemptResult(text, retries + 1).done
    /\ LET value == AttemptResult(text, retries + 1).value
       IN  /\ MakePlanReturn(text, value)
           /\ plan' = value
           /\ up_ret' = UpdatePlanResult(value, agents_tasks)
           /\ replan_log' = [replan_log EXCEPT ![Len(replan_log)] =
                                  IF value = <<>> THEN "no_update" ELSE "replaced"]
    /\ IF caller = "process"
       THEN /\ agents_tasks' = up_ret'
            /\ steps' = Len(up_ret')
            /\ i' = NextIndex(i)
            /\ pc' = "loop"
       ELSE /\ pc' = "returned"
            /\ UNCHANGED <<agents_tasks, steps, i>>
    /\ UNCHANGED <<caller, parse_text, parse_result, carried, api_vars,
                   stop, stop_at, agents_work_result, required_infos, answer,
                   success, ret, fault, up_id, tool_success_str, next_task,
                   dispatched, completed, initial_plan>>

(***************************************************************************)
(* process                                                                 *)
(***************************************************************************)
\* lines 398-403
Start ==
    /\ pc = "idle"
    /\ pc' = "make_plan"
    /\ agents_tasks' = <<>>
    /\ required_infos' = None
    /\ agents_work_result' = <<>>
    /\ MakePlanEnter("goal")
    /\ UNCHANGED <<caller, parse_text, parse_result, carried, api_vars,
                   stop, stop_at, i, steps, answer, success, ret, fault, up_id,
                   tool_success_str, next_task, plan, up_ret, dispatched,
                   completed, replan_log, initial_plan>>

\* mutant: the empty initial plan is not special-cased
NoPlanNever(value) == FALSE

\* line 405
NoPlan(value) == value = <<>>

\* lines 403-408
InitialPlanned(text) ==
    /\ pc = "make_plan"
    /\ Negotiating
    /\ AttemptResult(text, retries + 1).done
    /\ LET value == AttemptResult(text, retries + 1).value
       IN  /\ MakePlanReturn(text, value)
           /\ agents_tasks' = value
           /\ initial_plan' = value
           /\ IF NoPlan(value)
              THEN /\ ret' = <<"Failed to parse the tasks.">>
                   /\ pc' = "done"
                   /\ UNCHANGED <<i, steps>>
              ELSE /\ i' = 0
                   /\ steps' = Len(value)
                   /\ pc' = "loop"
                   /\ UNCHANGED ret
    /\ UNCHANGED <<caller, parse_text, parse_result, carried, api_vars,
                   stop, stop_at, agents_work_result, required_infos, answer,
                   success, fault, up_id, tool_success_str, next_task, plan,
                   up_ret, dispatched, completed, replan_log>>

\* mutant: the loop does not look at the stop flag
LoopContinuesIgnoringStop(index, length, stopped) == index < length

\* mutant: the loop leaves the last position of the plan undone
LoopContinuesOneShort(index, length, stopped) == index + 1 < length /\ ~stopped

\* line 409
LoopContinues(index, length, stopped) == index < length /\ ~stopped

\* mutant: the first task whose dependencies are all recorded goes first
CurrentTaskReady ==
    LET ready == {k \in 1..Len(agents_tasks) :
                    LET t == agents_tasks[k][2]
                    IN  /\ "need" \in DOMAIN t
                        /\ t.id \notin DOMAIN agents_work_result
                        /\ \A j \in DOMAIN t.need : t.need[j] \in DOMAIN agents_work_result}
    IN  IF ready = {} THEN agents_tasks[i + 1][2]
        ELSE agents_tasks[CHOOSE k \in ready : \A m \in ready : k <= m][2]

\* line 410
CurrentTask == agents_tasks[i + 1][2]

\* mutant: the whole Result Store is handed to the executor
get_work_result_agentAll(task_needs, results) == results

\* line 383
get_work_result_agent(task_needs, results) ==
    [k \in {task_needs[j] : j \in DOMAIN task_needs} \cap DOMAIN results |->
        results[k]]

\* line 362: the executor lookup succeeds
HasExecutor(task) == Lower(task.agent) \in AgentKeys

\* lines 409-422: task["need"] raises KeyError
DispatchNeedFault ==
    /\ pc = "loop"
    /\ LoopContinues(i, steps, stop)
    /\ "need" \notin DOMAIN CurrentTask
    /\ fault' = "KeyError"
    /\ pc' = "fault"
    /\ UNCHANGED <<caller, parse_text, parse_result, carried, api_vars,
                   stop, stop_at, agents_tasks, agents_work_result, i, steps,
                   required_infos, answer, success, ret, retries, prompt,
                   llm_calls, mp_log, mp_done, mp_ret, up_id, tool_success_str,
                   next_task, plan, up_ret, dispatched, completed, replan_log,
                   initial_plan>>

\* lines 409-425, 358-362: self.agents[...] raises KeyError
DispatchLookupFault ==
    /\ pc = "loop"
    /\ LoopContinues(i, steps, stop)
    /\ "need" \in DOMAIN CurrentTask
    /\ ~HasExecutor(CurrentTask)
    /\ required_infos' = get_work_result_agent(CurrentTask.need, agents_work_result)
    /\ fault' = "KeyError"
    /\ pc' = "fault"
    /\ UNCHANGED <<caller, parse_text, parse_result, carried, api_vars,
                   stop, stop_at, agents_tasks, agents_work_result, i, steps,
                   answer, success, ret, retries, prompt, llm_calls, mp_log,
                   mp_done, mp_ret, up_id, tool_success_str, next_task, plan,
                   up_ret, dispatched, completed, replan_log, initial_plan>>

\* lines 409-425, 358-362: the executor is invoked
DispatchBegin ==
    /\ pc = "loop"
    /\ LoopContinues(i, steps, stop)
    /\ "need" \in DOMAIN CurrentTask
    /\ HasExecutor(CurrentTask)
    /\ required_infos' = get_work_result_agent(CurrentTask.need, agents_work_result)
    /\ dispatched' = Append(dispatched, <<i, CurrentTask>>)
    /\ pc' = "dispatch"
    /\ UNCHANGED <<caller, parse_text, parse_result, carried, api_vars,
                   stop, stop_at, agents_tasks, agents_work_result, i, steps,
                   answer, success, ret, fault, retries, prompt, llm_calls,
                   mp_log, mp_done, mp_ret, up_id, tool_success_str, next_task,
                   plan, up_ret, completed, replan_log, initial_plan>>

\* mutant: recording an answer drops the answers recorded before
RecordOnly(results, id, value) == [k \in {id} |-> value]

\* mutant: the answer is not recorded
RecordNothing(results, id, value) == results

\* line 430
Record(results, id, value) ==
    [k \in DOMAIN results \cup {id} |-> IF k = id THEN value ELSE results[k]]

\* lines 362-380, 425-435: the executor returns; the answer is recorded and
\* update_plan runs up to its first model call (or returns without one)
DispatchReturn(raw, succ) ==
    /\ pc = "dispatch"
    /\ answer' = AgentAnswer(raw, succ)
    /\ success' = succ
    /\ completed' = completed + 1
    /\ agents_work_result' = Record(agents_work_result, CurrentTask.id, answer')
    /\ UpdatePlanEnter(agents_tasks, agents_work_result', CurrentTask.id, succ)
    /\ IF pc' = "loop"
       THEN /\ agents_tasks' = up_ret'
            /\ steps' = Len(up_ret')
            /\ i' = NextIndex(i)
       ELSE UNCHANGED <<agents_tasks, steps, i>>
    /\ UNCHANGED <<caller, parse_text, parse_result, carried, api_vars,
                   stop, stop_at, required_infos, ret, dispatched, initial_plan>>

\* mutant: the executor's exception is caught and the loop goes on
DispatchFaultSwallowed ==
    /\ pc = "dispatch"
    /\ fault' = "ExecutorFault"
    /\ pc' = "loop"
    /\ i' = i + 1
    /\ UNCHANGED <<caller, parse_text, parse_result, carried, api_vars,
                   stop, stop_at, agents_tasks, agents_work_result, steps,
                   required_infos, answer, success, ret, retries, prompt,
                   llm_calls, mp_log, mp_done, mp_ret, up_id, tool_success_str,
                   next_task, plan, up_ret, dispatched, completed, replan_log,
                   initial_plan>>

\* line 425-427: the executor raises
DispatchFault ==
    /\ pc = "dispatch"
    /\ fault' = "ExecutorFault"
    /\ pc' = "fault"
    /\ UNCHANGED <<caller, parse_text, parse_result, carried, api_vars,
                   stop, stop_at, agents_tasks, agents_work_result, i, steps,
                   required_infos, answer, success, ret, retries, prompt,
                   llm_calls, mp_log, mp_done, mp_ret, up_id, tool_success_str,
                   next_task, plan, up_ret, dispatched, completed, replan_log,
                   initial_plan>>

\* lines 409, 437: the loop ends and the last answer is returned
LoopReturn ==
    /\ pc = "loop"
    /\ ~LoopContinues(i, steps, stop)
    /\ answer # <<>>
    /\ ret' = answer
    /\ pc' = "done"
    /\ UNCHANGED <<caller, parse_text, parse_result, carried, api_vars,
                   stop, stop_at, agents_tasks, agents_work_result, i, steps,
                   required_infos, answer, success, fault, retries, prompt,
                   llm_calls, mp_log, mp_done, mp_ret, up_id, tool_success_str,
                   next_task, plan, up_ret, dispatched, completed, replan_log,
                   initial_plan>>

\* lines 409, 437: the loop never ran, so answer is unbound at the return
LoopUnbound ==
    /\ pc = "loop"
    /\ ~LoopContinues(i, steps, stop)
    /\ answer = <<>>
    /\ fault' = "UnboundLocalError"
    /\ pc' = "fault"
    /\ UNCHANGED <<caller, parse_text, parse_result, carried, api_vars,
                   stop, stop_at, agents_tasks, agents_work_result, i, steps,
                   required_infos, answer, success, ret, retries, prompt,
                   llm_calls, mp_log, mp_done, mp_ret, up_id, tool_success_str,
                   next_task, plan, up_ret, dispatched, completed, replan_log,
                   initial_plan>>

(***************************************************************************)
(* api.py /stop: request_stop on the current agent.  The endpoint answers  *)
(* 404 while there is no current agent, that is before the first query.    *)
(***************************************************************************)
\* Agent.request_stop
request_stop ==
    /\ stop' = TRUE
    /\ stop_at' = (IF stop THEN stop_at ELSE pc)

Stop ==
    /\ pc # "idle"
    /\ request_stop
    /\ UNCHANGED <<pc, caller, parse_text, parse_result, carried, api_vars,
                   agents_tasks, agents_work_result, i, steps,
                   required_infos, answer, success, ret, fault, retries, prompt,
                   llm_calls, mp_log, mp_done, mp_ret, up_id, tool_success_str,
                   next_task, plan, up_ret, dispatched, completed, replan_log,
                   initial_plan>>

(***************************************************************************)
(* Specifications.                                                         *)
(***************************************************************************)
Defaults ==
    /\ stop = FALSE
    /\ stop_at = ""
    /\ i = 0
    /\ steps = 0
    /\ required_infos = None
    /\ answer = <<>>
    /\ ret = <<>>
    /\ fault = "none"
    /\ retries = 0
    /\ prompt = ""
    /\ llm_calls = 0
    /\ mp_log = <<>>
    /\ mp_done = FALSE
    /\ mp_ret = <<>>
    /\ tool_success_str = ""
    /\ next_task = NoNote
    /\ plan = <<>>
    /\ up_ret = <<>>
    /\ dispatched = <<>>
    /\ completed = 0
    /\ replan_log = <<>>
    /\ initial_plan = <<>>
    /\ parse_result = <<>>
    /\ carried = FALSE
    /\ is_generating = FALSE
    /\ query_resp_history = <<>>
    /\ current_agent = None

\* one orchestration run of a freshly constructed planner
Init ==
    /\ pc = "idle"
    /\ caller = "process"
    /\ agents_tasks = <<>>
    /\ agents_work_result = <<>>
    /\ success = FALSE
    /\ up_id = ""
    /\ parse_text = None
    /\ handlers = <<>>
    /\ content = <<>>
    /\ Defaults

Next ==
    \/ Start
    \/ \E text \in Responses : MakePlanRetry(text)
    \/ \E text \in Responses : InitialPlanned(text)
    \/ \E text \in Responses : Replanned(text)
    \/ ModelFault
    \/ DispatchNeedFault
    \/ DispatchLookupFault
    \/ DispatchBegin
    \/ \E raw \in RawAnswers, succ \in BOOLEAN : DispatchReturn(raw, succ)
    \/ DispatchFault
    \/ LoopReturn
    \/ LoopUnbound
    \/ Stop

Spec == Init /\ [][Next]_vars

\* one run in which the model may also answer with a plan whose ids are not
\* the positions of its tasks
NextRenumbered ==
    \/ Next
    \/ InitialPlanned(SwappedText)
    \/ Replanned(SwappedText)

SpecRenumbered == Init /\ [][NextRenumbered]_vars

\* lines 342-347, 431-435 for a replan whose plan is not longer than the
\* plan it replaces
ReplannedNoLonger(text) ==
    /\ Replanned(text)
    /\ Len(up_ret') <= Len(agents_tasks)

\* the steps of a run in which every call returns
Progress ==
    \/ Start
    \/ \E text \in Responses : MakePlanRetry(text)
    \/ \E text \in Responses : InitialPlanned(text)
    \/ \E text \in Responses : ReplannedNoLonger(text)
    \/ DispatchNeedFault
    \/ DispatchLookupFault
    \/ DispatchBegin
    \/ \E raw \in RawAnswers, succ \in BOOLEAN : DispatchReturn(raw, succ)
    \/ LoopReturn
    \/ LoopUnbound

NextBounded == Progress \/ Stop

\* one run in which every model and executor call returns and no replan
\* lengthens the plan
SpecBounded == Init /\ [][NextBounded]_vars /\ WF_vars(Progress)

\* lines 389-403: process() is called again on the same planner after a run
\* has returned or raised.  Its locals are new; self.stop is not assigned
\* by process().  carried records that the earlier run left answers in its
\* store.
Restart ==
    /\ pc \in {"done", "fault"}
    /\ ~carried
    /\ carried' = (agents_work_result # <<>>)
    /\ pc' = "make_plan"
    /\ agents_tasks' = <<>>
    /\ required_infos' = None
    /\ agents_work_result' = <<>>
    /\ MakePlanEnter("goal")
    /\ i' = 0
    /\ steps' = 0
    /\ answer' = <<>>
    /\ success' = FALSE
    /\ ret' = <<>>
    /\ fault' = "none"
    /\ up_id' = ""
    /\ tool_success_str' = ""
    /\ next_task' = NoNote
    /\ plan' = <<>>
    /\ up_ret' = <<>>
    /\ dispatched' = <<>>
    /\ completed' = 0
    /\ replan_log' = <<>>
    /\ initial_plan' = <<>>
    /\ UNCHANGED <<caller, parse_text, parse_result, api_vars, stop, stop_at>>

NextRuns == Next \/ Restart

\* several orchestration runs, one after another, of the same planner
SpecRuns == Init /\ [][NextRuns]_vars

DirectIds == {"1", "2", "abc", "0", "-1"}

DirectPlans ==
    {parse_agent_tasks(PlanText(n)) : n \in 1..MaxPlanLen}
    \cup {parse_agent_tasks(OddText), parse_agent_tasks(HeadingText),
          parse_agent_tasks(SwappedText)}

DirectStores ==
    UNION {[ids -> Answers] : ids \in SUBSET {"1", "abc"}}

InitDirect ==
    /\ pc = "update_plan"
    /\ caller = "direct"
    /\ agents_tasks \in DirectPlans
    /\ agents_work_result \in DirectStores
    /\ success \in BOOLEAN
    /\ up_id \in DirectIds
    /\ parse_text = None
    /\ handlers = <<>>
    /\ content = <<>>
    /\ Defaults

NextDirect ==
    \/ UpdatePlanCall
    \/ \E text \in Responses : MakePlanRetry(text)
    \/ \E text \in Responses : Replanned(text)
    \/ ModelFault
    \/ Stop

SpecDirect == InitDirect /\ [][NextDirect]_vars

(***************************************************************************)
(* parse_agent_tasks called on its own, on texts built from every shape of *)
(* payload item, block and heading line.                                   *)
(***************************************************************************)
\* most items in a plan list
MaxItems == 2

\* most heading lines in a text
MaxHeadings == 2

\* values of the "agent" field ("": the field is absent)
AgentChoices == {"", "CODER", "Planner", "Bogus"}

\* values of the "id" field ("": the field is absent)
IdChoices == {"", "2"}

\* the dict with the chosen fields; item k of a list has description k
MakeItem(k, agent, id, has_task, has_need) ==
    LET keys == (IF agent = "" THEN {} ELSE {"agent"})
                \cup (IF id = "" THEN {} ELSE {"id"})
                \cup (IF has_task THEN {"task"} ELSE {})
                \cup (IF has_need THEN {"need"} ELSE {})
    IN  [f \in keys |->
            CASE f = "agent" -> agent
              [] f = "id"    -> id
              [] f = "task"  -> Cycle(StdDescs, k)
              [] OTHER       -> <<"1">>]

ItemsAt(k) ==
    {MakeItem(k, agent, id, has_task, has_need) :
        agent \in AgentChoices, id \in IdChoices,
        has_task \in BOOLEAN, has_need \in BOOLEAN}
    \cup {NonDict}

\* the plan lists of exactly n items
RECURSIVE PlanLists(_)
PlanLists(n) ==
    IF n = 0 THEN {<<>>}
    ELSE {Append(items, item) : items \in PlanLists(n - 1), item \in ItemsAt(n)}

AllPlanLists == UNION {PlanLists(n) : n \in 0..MaxItems}

\* kinds of payload item: complete, without "task", no dict, agent no str
ItemKinds == {"ok", "notask", "nondict", "badagent"}

KindItem(k, kind) ==
    CASE kind = "ok"       -> MakeItem(k, "CODER", "", TRUE, TRUE)
      [] kind = "notask"   -> MakeItem(k, "CODER", "", FALSE, TRUE)
      [] kind = "badagent" -> MakeItem(k, NotAString, "", TRUE, TRUE)
      [] OTHER             -> NonDict

\* the plan lists of three items of these kinds
MixedLists ==
    {[k \in 1..3 |-> KindItem(k, kinds[k])] : kinds \in [1..3 -> ItemKinds]}

FailBlock == [parse |-> "fail"]

NoPlanBlock == [parse |-> "ok"]

SmallBlocks == {FailBlock, NoPlanBlock} \cup {PlanBlock(items) : items \in PlanLists(1)}

Keywords == {"code", "script", "python", "search", "web", "internet", "file", "folder"}

HeadNames == <<"1. first step", "2. second step", "3. third step", "4. fourth step">>

\* heading line k: a "##" line or a line that begins with a digit
Heading(k, hash, kws) == Line(Cycle(HeadNames, k), hash, ~hash, kws)

Blank == Line("", FALSE, FALSE, {})

\* a line that is no heading although it contains keywords
ProseWithKeywords == Line("I will write code and search the web", FALSE, FALSE, {"code", "search", "web"})

\* n heading lines, each with at most one keyword
RECURSIVE HeadingLists(_)
HeadingLists(n) ==
    IF n = 0 THEN {<<>>}
    ELSE {Append(lines, Heading(n, hash, kws)) :
             lines \in HeadingLists(n - 1), hash \in BOOLEAN,
             kws \in {{}} \cup {{w} : w \in Keywords}}

\* one heading line with two keywords
TwoKeywordLines ==
    {<<Heading(1, FALSE, {v, w})>> : v \in Keywords, w \in Keywords}

\* the two heading lines of a numbered outline, separated by an empty line
Outline == <<ProseWithKeywords, Heading(1, FALSE, {"search", "web"}), Blank,
             Heading(2, FALSE, {})>>

LineChoices ==
    UNION {HeadingLists(n) : n \in 0..MaxHeadings}
    \cup TwoKeywordLines \cup {<<Prose>>, Outline}

DecodeText(lines, blocks, brace) ==
    [marker |-> FALSE, lines |-> lines, blocks |-> blocks, brace |-> brace]

\* the texts parse_agent_tasks is called on: one block with any plan list,
\* one block with a mixed list, two small blocks, or no block and the
\* "{" .. "}" slice
IsDecodeText(text) ==
    \/ \E lines \in {<<Prose>>, Outline}, items \in AllPlanLists :
           text = DecodeText(lines, <<PlanBlock(items)>>, NoBrace)
    \/ \E lines \in {<<Prose>>, Outline}, items \in MixedLists :
           text = DecodeText(lines, <<PlanBlock(items)>>, NoBrace)
    \/ \E lines \in {<<Prose>>, Outline}, b1 \in SmallBlocks, b2 \in SmallBlocks :
           text = DecodeText(lines, <<b1, b2>>, NoBrace)
    \/ \E lines \in LineChoices, brace \in {NoBrace, FailBlock, NoPlanBlock} :
           text = DecodeText(lines, <<>>, brace)
    \/ \E lines \in {<<Prose>>, Outline}, brace \in SmallBlocks :
           text = DecodeText(lines, <<>>, brace)

InitDecode ==
    /\ pc = "parse"
    /\ caller = "direct"
    /\ agents_tasks = <<>>
    /\ agents_work_result = <<>>
    /\ success = FALSE
    /\ up_id = ""
    /\ IsDecodeText(parse_text)
    /\ handlers = <<>>
    /\ content = <<>>
    /\ Defaults

\* lines 76-198
ParseCall ==
    /\ pc = "parse"
    /\ parse_result' = parse_agent_tasks(parse_text)
    /\ pc' = "parsed"
    /\ UNCHANGED <<caller, parse_text, carried, api_vars, stop, stop_at, agents_tasks,
                   agents_work_result, i, steps, required_infos, answer, success,
                   ret, fault, retries, prompt, llm_calls, mp_log, mp_done,
                   mp_ret, up_id, tool_success_str, next_task, plan, up_ret,
                   dispatched, completed, replan_log, initial_plan>>

NextDecode == ParseCall

SpecDecode == InitDecode /\ [][NextDecode]_vars

(***************************************************************************)
(* api.py: the /query, /reset and /stop handlers.  A handler runs from one *)
(* await to the next without interleaving; process_query awaits once, in   *)
(* think_wrapper.                                                          *)
(***************************************************************************)
\* most /query requests
MaxQueries == 3

Queries == 1..MaxQueries

\* /query requests inside think_wrapper
Thinking == {q \in Queries : handlers[q] = "thinking"}

\* no response yet
NoContent == "<no response>"

\* lines 914-923: the answer of a QueryResponse as constructed
EmptyAnswer == ""

\* mutant: the rejection is inside the try, so that the finally clause
\* clears the flag
QueryArrivesClearsFlag(q) ==
    /\ pc = "api"
    /\ handlers[q] = "new"
    /\ IF is_generating
       THEN /\ handlers' = [handlers EXCEPT ![q] = "429"]
            /\ content' = [content EXCEPT ![q] = EmptyAnswer]
            /\ is_generating' = FALSE
       ELSE /\ is_generating' = TRUE
            /\ handlers' = [handlers EXCEPT ![q] = "thinking"]
            /\ UNCHANGED content
    /\ UNCHANGED <<pc, caller, parse_text, parse_result, carried,
                   query_resp_history, current_agent,
                   stop, stop_at, agents_tasks, agents_work_result, i, steps,
                   required_infos, answer, success, ret, fault, retries, prompt,
                   llm_calls, mp_log, mp_done, mp_ret, up_id, tool_success_str,
                   next_task, plan, up_ret, dispatched, completed, replan_log,
                   initial_plan>>

\* lines 910-929: a /query request arrives; it is answered 429 or enters
\* think_wrapper
QueryArrives(q) ==
    /\ pc = "api"
    /\ handlers[q] = "new"
    /\ IF is_generating
       THEN /\ handlers' = [handlers EXCEPT ![q] = "429"]
            /\ content' = [content EXCEPT ![q] = EmptyAnswer]
            /\ UNCHANGED is_generating
       ELSE /\ is_generating' = TRUE
            /\ handlers' = [handlers EXCEPT ![q] = "thinking"]
            /\ UNCHANGED content
    /\ UNCHANGED <<pc, caller, parse_text, parse_result, carried,
                   query_resp_history, current_agent,
                   stop, stop_at, agents_tasks, agents_work_result, i, steps,
                   required_infos, answer, success, ret, fault, retries, prompt,
                   llm_calls, mp_log, mp_done, mp_ret, up_id, tool_success_str,
                   next_task, plan, up_ret, dispatched, completed, replan_log,
                   initial_plan>>

\* Interaction.think picks the agent that handles the query
SelectAgent ==
    /\ pc = "api"
    /\ Thinking # {}
    /\ current_agent = None
    /\ current_agent' = [agent_name |-> "Planner"]
    /\ UNCHANGED <<pc, caller, parse_text, parse_result, carried,
                   is_generating, handlers, query_resp_history, content,
                   stop, stop_at, agents_tasks, agents_work_result, i, steps,
                   required_infos, answer, success, ret, fault, retries, prompt,
                   llm_calls, mp_log, mp_done, mp_ret, up_id, tool_success_str,
                   next_task, plan, up_ret, dispatched, completed, replan_log,
                   initial_plan>>

\* mutant: an exception is answered like a run that reported no success
QueryStatusRaiseUnsuccessful(outcome, agent) ==
    CASE outcome = "raise"     -> "400"
      [] outcome = "nosuccess" -> "400"
      [] agent = None          -> "400"
      [] OTHER                 -> "200"

\* lines 930-985: the status the handler answers with after think_wrapper
\* returned TRUE ("ok"), returned FALSE ("nosuccess") or raised ("raise")
QueryStatus(outcome, agent) ==
    CASE outcome = "raise"     -> "500"
      [] outcome = "nosuccess" -> "400"
      [] agent = None          -> "400"
      [] OTHER                 -> "200"

\* lines 893, 898, 904, 953: interaction.last_answer after think_wrapper
LastAnswer(outcome) ==
    CASE outcome = "raise"     -> ""
      [] outcome = "nosuccess" -> "Error: No answer from agent"
      [] OTHER                 -> "answer"

\* lines 934-936, 946-948, 953, 971-979: the answer of the response or, for
\* status 500, its message
QueryContent(outcome, agent) ==
    CASE outcome = "raise"     -> "An unexpected error occurred processing the query."
      [] outcome = "nosuccess" -> LastAnswer(outcome)
      [] agent = None          -> "Error: No current agent"
      [] OTHER                 -> LastAnswer(outcome)

\* mutant: the flag is cleared only on the paths that do not raise (line 932)
ThinkReturnsNoCleanup(q, outcome) ==
    /\ pc = "api"
    /\ handlers[q] = "thinking"
    /\ handlers' = [handlers EXCEPT ![q] = QueryStatus(outcome, current_agent)]
    /\ content' = [content EXCEPT ![q] = QueryContent(outcome, current_agent)]
    /\ is_generating' = (outcome = "raise" /\ is_generating)
    /\ query_resp_history' =
           (IF QueryStatus(outcome, current_agent) = "200"
            THEN Append(query_resp_history, q)
            ELSE query_resp_history)
    /\ UNCHANGED <<pc, caller, parse_text, parse_result, carried, current_agent,
                   stop, stop_at, agents_tasks, agents_work_result, i, steps,
                   required_infos, answer, success, ret, fault, retries, prompt,
                   llm_calls, mp_log, mp_done, mp_ret, up_id, tool_success_str,
                   next_task, plan, up_ret, dispatched, completed, replan_log,
                   initial_plan>>

\* lines 930-985: think_wrapper is over and the handler runs to its end
ThinkReturns(q, outcome) ==
    /\ pc = "api"
    /\ handlers[q] = "thinking"
    /\ handlers' = [handlers EXCEPT ![q] = QueryStatus(outcome, current_agent)]
    /\ content' = [content EXCEPT ![q] = QueryContent(outcome, current_agent)]
    /\ is_generating' = FALSE
    /\ query_resp_history' =
           (IF QueryStatus(outcome, current_agent) = "200"
            THEN Append(query_resp_history, q)
            ELSE query_resp_history)
    /\ UNCHANGED <<pc, caller, parse_text, parse_result, carried, current_agent,
                   stop, stop_at, agents_tasks, agents_work_result, i, steps,
                   required_infos, answer, success, ret, fault, retries, prompt,
                   llm_calls, mp_log, mp_done, mp_ret, up_id, tool_success_str,
                   next_task, plan, up_ret, dispatched, completed, replan_log,
                   initial_plan>>

\* lines 197-205
reset_state ==
    /\ pc = "api"
    /\ is_generating' = FALSE
    /\ UNCHANGED <<pc, caller, parse_text, parse_result, carried,
                   handlers, query_resp_history, current_agent, content,
                   stop, stop_at, agents_tasks, agents_work_result, i, steps,
                   required_infos, answer, success, ret, fault, retries, prompt,
                   llm_calls, mp_log, mp_done, mp_ret, up_id, tool_success_str,
                   next_task, plan, up_ret, dispatched, completed, replan_log,
                   initial_plan>>

\* lines 208-216: /stop answers 404 while there is no current agent
ApiStop ==
    /\ pc = "api"
    /\ IF current_agent = None
       THEN UNCHANGED <<stop, stop_at>>
       ELSE request_stop
    /\ UNCHANGED <<pc, caller, parse_text, parse_result, carried, api_vars,
                   agents_tasks, agents_work_result, i, steps,
                   required_infos, answer, success, ret, fault, retries, prompt,
                   llm_calls, mp_log, mp_done, mp_ret, up_id, tool_success_str,
                   next_task, plan, up_ret, dispatched, completed, replan_log,
                   initial_plan>>

\* the server after start-up
InitApi ==
    /\ pc = "api"
    /\ caller = "api"
    /\ agents_tasks = <<>>
    /\ agents_work_result = <<>>
    /\ success = FALSE
    /\ up_id = ""
    /\ parse_text = None
    /\ handlers = [q \in Queries |-> "new"]
    /\ content = [q \in Queries |-> NoContent]
    /\ Defaults

NextApi ==
    \/ \E q \in Queries : QueryArrives(q)
    \/ SelectAgent
    \/ \E q \in Queries, outcome \in {"ok", "nosuccess", "raise"} :
           ThinkReturns(q, outcome)
    \/ reset_state
    \/ ApiStop

SpecApi == InitApi /\ [][NextApi]_vars

(***************************************************************************)
(* Properties.                                                             *)
(***************************************************************************)
Last(seq) == seq[Len(seq)]

\* some candidate block parses and its plan list holds a dict with "task"
HasDecodableTask(text) ==
    \E b \in DOMAIN CandidateBlocks(text) :
        LET block == CandidateBlocks(text)[b]
        IN  /\ block.parse = "ok"
            /\ "plan" \in DOMAIN block
            /\ \E k \in DOMAIN block.plan :
                   IsDict(block.plan[k]) /\ "task" \in DOMAIN block.plan[k]

\* neither the marker, nor a decodable task, nor a heading line
Barren(text) ==
    /\ ~text.marker
    /\ ~HasDecodableTask(text)
    /\ \A k \in DOMAIN text.lines : ~IsTaskName(text.lines[k])

AllBarren == \A k \in DOMAIN mp_log : Barren(mp_log[k])

\* C1: one call of make_plan invokes the model at most 3 times; when none
\* of its three responses holds the marker, a decodable task or a heading
\* line, it returns the empty plan after exactly 3 invocations, not raising.
C1_AtMostThreeCalls ==
    /\ llm_calls <= 3
    /\ (mp_done /\ AllBarren) =>
          /\ llm_calls = 3
          /\ Len(mp_log) = 3
          /\ mp_ret = <<>>
    /\ (Len(mp_log) = 3 /\ AllBarren) => mp_done

C1_Witness ==
    /\ mp_done
    /\ AllBarren
    /\ Len(mp_log) = 3
    /\ mp_ret = <<>>
    /\ pc = "done"

\* C2: at any attempt, a response containing NO_UPDATE ends the negotiation
\* at once with the empty plan: nothing is decoded from it and no further
\* model call is made, even when it also carries a well-formed payload.
C2_MarkerShortCircuits ==
    \A k \in DOMAIN mp_log :
        mp_log[k].marker =>
            /\ k = Len(mp_log)
            /\ llm_calls = k
            /\ mp_done
            /\ mp_ret = <<>>

C2_Witness ==
    /\ Len(mp_log) = 3
    /\ mp_log[3] = NoUpdateWithPlan
    /\ HasDecodableTask(mp_log[3])
    /\ mp_done
    /\ mp_ret = <<>>

\* C3: the k-th dispatch is the task at index k-1 of the working plan
\* current at that moment; the index advances by one per iteration, no
\* position is skipped or revisited, and unresolved dependencies do not
\* delay a task.
C3_PlanIndexOrder ==
    /\ \A k \in DOMAIN dispatched : dispatched[k][1] = k - 1
    /\ pc = "dispatch" =>
          /\ Len(dispatched) = i + 1
          /\ Last(dispatched) = <<i, agents_tasks[i + 1][2]>>
    /\ pc = "loop" => Len(dispatched) = i
    /\ pc = "replan" => Len(dispatched) = i + 1

\* the second dispatch is in flight, after a first task that was dispatched
\* while the id it depends on had no recorded result
C3_Witness ==
    /\ pc = "dispatch"
    /\ Len(dispatched) = 2
    /\ dispatched[1][2].need = <<"2">>
    /\ dispatched[2][2].id = "2"

\* C4: no dispatch begins once the stop flag is set, and a dispatch in
\* flight when the flag is set completes and has its output recorded in the
\* Result Store before the loop exits.
C4_StopBetweenIterations ==
    [][/\ stop => dispatched' = dispatched
       /\ (stop /\ pc = "dispatch" /\ pc' \notin {"dispatch", "fault"}) =>
             /\ completed' = completed + 1
             /\ up_id' = Last(dispatched)[2].id
             /\ up_id' \in DOMAIN agents_work_result'
             /\ agents_work_result'[up_id'] = answer'
       /\ (pc # "done" /\ pc' = "done") => completed' = Len(dispatched')]_vars

\* the run returned after a stop that arrived during a dispatch, with that
\* dispatch recorded and a task of the plan left undone
C4_Witness ==
    /\ pc = "done"
    /\ stop_at = "dispatch"
    /\ completed = Len(dispatched)
    /\ completed < Len(agents_tasks)
    /\ up_id \in DOMAIN agents_work_result
    /\ ret = agents_work_result[up_id]

\* C5: if the executor raises during a dispatch the exception leaves the
\* run: nothing is recorded for the task, the replanner is not invoked for
\* it and no later task is dispatched.
C5_ExecutorFaultAborts ==
    [][fault' = "ExecutorFault" =>
          /\ pc' = "fault"
          /\ ret' = <<>>
          /\ agents_work_result' = agents_work_result
          /\ replan_log' = replan_log
          /\ Len(replan_log') = completed'
          /\ dispatched' = dispatched
          /\ completed' = completed
          /\ i' = i]_vars

C5_Witness ==
    /\ fault = "ExecutorFault"
    /\ pc = "fault"
    /\ Len(dispatched) = 1
    /\ Len(agents_tasks) = 2
    /\ agents_work_result = <<>>

\* C6: an iteration invokes the executor once; after success=false the task
\* is not dispatched again, its output is in the Result Store, the
\* replanner was invoked with the failure verdict and the next dispatch is
\* the next index.
C6_FailureNotRetried ==
    /\ Len(dispatched) \in {completed, completed + 1}
    /\ pc = "dispatch" => Last(dispatched)[1] = completed
    /\ (completed > 0 /\ ~success) =>
          /\ answer[2] = "\nAgent failed with task (Error detected)."
          /\ up_id = dispatched[completed][2].id
          /\ agents_work_result[up_id] = answer
          /\ tool_success_str = "failure"
          /\ Len(replan_log) = completed

\* the dispatch after a failed first task is in flight
C6_Witness ==
    /\ pc = "dispatch"
    /\ completed = 1
    /\ ~success
    /\ Len(dispatched) = 2
    /\ dispatched[2][1] = 1

\* C7: if the initial negotiation returns the empty plan, the run returns
\* the failed-to-plan result with no dispatch and no replanner invocation.
C7_EmptyInitialPlan ==
    (caller = "process" /\ replan_log = <<>> /\ mp_done /\ mp_ret = <<>>) =>
        /\ pc = "done"
        /\ ret = <<"Failed to parse the tasks.">>
        /\ fault = "none"
        /\ dispatched = <<>>
        /\ completed = 0
        /\ tool_success_str = ""

C7_Witness ==
    /\ caller = "process"
    /\ replan_log = <<>>
    /\ mp_done
    /\ mp_ret = <<>>
    /\ Len(mp_log) = 3
    /\ ret = <<"Failed to parse the tasks.">>

AllNoUpdate ==
    \A k \in DOMAIN replan_log : replan_log[k] \in {"no_update", "pending"}

C9_ReplanReplacesWholesale ==
    (caller = "process" /\ replan_log # <<>> /\ Last(replan_log) = "replaced") =>
        /\ mp_ret # <<>>
        /\ agents_tasks = mp_ret
        /\ i = completed
        /\ pc = "dispatch" => Last(dispatched) = <<completed, mp_ret[completed + 1][2]>>

\* the second dispatch is in flight, taken from a replacement plan that
\* differs from the initial plan at the position already done
C9_Witness ==
    /\ pc = "dispatch"
    /\ replan_log = <<"replaced">>
    /\ Len(dispatched) = 2
    /\ agents_tasks[1] # initial_plan[1]
    /\ dispatched[1][2] = initial_plan[1][2]
    /\ dispatched[2][2] = agents_tasks[2][2]

\* C10: update_plan with a completed-task id that is no integer returns the
\* plan it was given, makes no model call and never raises, whatever the
\* Result Store holds.
C10_MalformedIdNeverRaises ==
    (caller = "direct" /\ ~IsInt(up_id) /\ pc # "update_plan") =>
        /\ pc = "returned"
        /\ fault = "none"
        /\ up_ret = agents_tasks
        /\ llm_calls = 0

\* the ids a dependency list names
NeedIds(task) == {task.need[j] : j \in DOMAIN task.need}

\* C11: at every dispatch the dependency context is exactly the Result Store
\* restricted to the ids of the task's dependency list: a listed id with a
\* recorded result is there with that result, no other id is there, and a
\* listed id without a result is left out without a fault.
C11_DependencyContext ==
    pc = "dispatch" =>
        LET task == Last(dispatched)[2]
        IN  /\ \A k \in NeedIds(task) \cap DOMAIN agents_work_result :
                   /\ k \in DOMAIN required_infos
                   /\ required_infos[k] = agents_work_result[k]
            /\ \A k \in DOMAIN required_infos :
                   k \in NeedIds(task) /\ k \in DOMAIN agents_work_result
            /\ fault = "none"

\* the second task is in flight with the first task's recorded answer as
\* its context
C11_Witness ==
    /\ pc = "dispatch"
    /\ Last(dispatched)[2].need = <<"1">>
    /\ DOMAIN agents_work_result = {"1"}
    /\ DOMAIN required_infos = {"1"}
    /\ required_infos["1"] = answer

\* C12: a working-plan task that has no "need" field is dispatched (with an
\* empty dependency context); the run does not stop with a KeyError at it.
C12_MissingNeedDispatches ==
    \A k \in 1..Len(agents_tasks) :
        "need" \notin DOMAIN agents_tasks[k][2] =>
            ~(pc = "fault" /\ fault = "KeyError" /\ i = k - 1)

\* C13: no task of the Decoder's result has the planner's own name as its
\* capability: such a payload item is decoded with capability casual.
C13_PlannerBecomesCasual ==
    pc = "parsed" =>
        \A k \in DOMAIN parse_result : Lower(parse_result[k][2].agent) # "planner"

\* the plan lists of the candidate blocks that parse, one after another
RECURSIVE PayloadItemsFrom(_, _)
PayloadItemsFrom(blocks, k) ==
    IF k > Len(blocks) THEN <<>>
    ELSE (IF blocks[k].parse = "ok" /\ "plan" \in DOMAIN blocks[k]
          THEN blocks[k].plan ELSE <<>>)
         \o PayloadItemsFrom(blocks, k + 1)

PayloadItems(text) ==
    PayloadItemsFrom(IF text.blocks # <<>> THEN text.blocks
                     ELSE IF text.brace.parse = "none" THEN <<>>
                     ELSE <<text.brace>>, 1)

\* every payload item is an object with a description and, if it names an
\* agent, names it by a string
AllHaveTask(items) ==
    \A k \in DOMAIN items :
        /\ "nondict" \notin DOMAIN items[k]
        /\ "task" \in DOMAIN items[k]
        /\ "agent" \in DOMAIN items[k] => items[k].agent # NotAString

\* the agent name a payload item gives ("" when the field is absent)
GivenAgent(item) == IF "agent" \in DOMAIN item THEN item.agent ELSE ""

\* C14: of a payload whose items all have a description, item k is decoded
\* into task k; a name that is, case-insensitively, one of coder, file, web,
\* casual keeps its capability, and a name that is neither one of them nor
\* the planner's name, or an absent agent field, gives capability casual.
C14_UnknownAgentIsCasual ==
    (pc = "parsed" /\ Len(PayloadItems(parse_text)) > 0
                   /\ AllHaveTask(PayloadItems(parse_text))) =>
        LET items == PayloadItems(parse_text)
        IN  /\ Len(parse_result) = Len(items)
            /\ \A k \in DOMAIN items :
                   LET name == Lower(GivenAgent(items[k]))
                       cap  == Lower(parse_result[k][2].agent)
                   IN  /\ name \in {"coder", "file", "web", "casual"} => cap = name
                       /\ name \notin {"coder", "file", "web", "casual", "planner"}
                              => cap = "casual"

\* an upper-case coder kept, an unknown name remapped
C14_Witness ==
    /\ pc = "parsed"
    /\ Len(PayloadItems(parse_text)) = 2
    /\ AllHaveTask(PayloadItems(parse_text))
    /\ GivenAgent(PayloadItems(parse_text)[1]) = "CODER"
    /\ GivenAgent(PayloadItems(parse_text)[2]) = "Bogus"
    /\ parse_result[1][2].agent = "CODER"
    /\ parse_result[2][2].agent = "Casual"

\* C15: every task of the working plan has a capability whose lower-cased
\* name is a registered executor.
C15_EveryTaskHasExecutor ==
    \A k \in 1..Len(agents_tasks) :
        Lower(agents_tasks[k][2].agent) \in {"coder", "file", "web", "casual"}

\* every payload item is an object with agent and description
WellFormed(items) ==
    \A k \in DOMAIN items :
        /\ "nondict" \notin DOMAIN items[k]
        /\ {"agent", "task"} \subseteq DOMAIN items[k]
        /\ items[k].agent # NotAString

\* task k of the result is payload item k: same description, same
\* dependency list (none if the item has none)
DecodedInOrder(items, result) ==
    /\ Len(result) = Len(items)
    /\ \A k \in DOMAIN items :
           /\ result[k][1] = items[k].task
           /\ result[k][2].task = items[k].task
           /\ "need" \in DOMAIN items[k] <=> "need" \in DOMAIN result[k][2]
           /\ "need" \in DOMAIN items[k] => result[k][2].need = items[k].need

\* C16 as stated: a payload of N well-formed task objects, N >= 0, is
\* decoded into exactly N tasks in payload order, none synthesized.
C16_Original ==
    (pc = "parsed" /\ WellFormed(PayloadItems(parse_text))) =>
        DecodedInOrder(PayloadItems(parse_text), parse_result)

\* C16 amended: a payload of N >= 1 well-formed task objects is decoded into
\* exactly N tasks in payload order, each with its item's description and
\* dependency list, none synthesized.
C16_WellFormedPayload ==
    (pc = "parsed" /\ WellFormed(PayloadItems(parse_text))
                   /\ Len(PayloadItems(parse_text)) >= 1) =>
        DecodedInOrder(PayloadItems(parse_text), parse_result)

\* two well-formed items, one with a dependency list and one without, in a
\* text that also has heading lines
C16_Witness ==
    /\ pc = "parsed"
    /\ WellFormed(PayloadItems(parse_text))
    /\ Len(PayloadItems(parse_text)) = 2
    /\ "need" \in DOMAIN PayloadItems(parse_text)[1]
    /\ "need" \notin DOMAIN PayloadItems(parse_text)[2]
    /\ \E k \in DOMAIN parse_text.lines : parse_text.lines[k].hash \/ parse_text.lines[k].digit
    /\ Len(parse_result) = 2
    /\ parse_result[1][2].need = <<"1">>

\* the heading lines of a text
IsHeading(line) == line.name # "" /\ (line.hash \/ line.digit)

Headings(text) == SelectSeq(text.lines, IsHeading)

\* the tasks structured decoding yields
Decoded(text) == DecodeBlocks(<<>>, CandidateBlocks(text), 1)

\* C17: if structured decoding yields no task and there is a heading line,
\* the result is one synthesized task per heading line, in order, with ids
\* "1".."n", the first without dependencies and each later one depending on
\* exactly the one before it; otherwise the result is the decoded tasks and
\* nothing else.
C17_FallbackSynthesis ==
    pc = "parsed" =>
        LET heads   == Headings(parse_text)
            decoded == Decoded(parse_text)
        IN  IF Len(decoded) = 0 /\ Len(heads) >= 1
            THEN /\ Len(parse_result) = Len(heads)
                 /\ \A k \in DOMAIN heads :
                        /\ parse_result[k][1] = heads[k].name
                        /\ parse_result[k][2].task = heads[k].name
                        /\ parse_result[k][2].id = Str(k)
                        /\ parse_result[k][2].need =
                               (IF k = 1 THEN <<>> ELSE <<Str(k - 1)>>)
            ELSE /\ Len(parse_result) = Len(decoded)
                 /\ \A k \in DOMAIN decoded : parse_result[k][2] = decoded[k]

\* a payload that decodes to nothing, two heading lines, two chained tasks
C17_Witness ==
    /\ pc = "parsed"
    /\ CandidateBlocks(parse_text) # <<>>
    /\ Len(Decoded(parse_text)) = 0
    /\ Len(Headings(parse_text)) = 2
    /\ Len(parse_result) = 2
    /\ parse_result[1][2].need = <<>>
    /\ parse_result[2][2].id = "2"
    /\ parse_result[2][2].need = <<"1">>

\* the result is synthesized from the heading lines
Synthesized(text) == Len(Decoded(text)) = 0 /\ Len(Headings(text)) >= 1

CoderWords == {"code", "script"}

WebWords == {"search", "web", "internet"}

FileWords == {"file", "folder"}

\* C18 as stated: a heading with "code" or "script" gives coder, with
\* "search", "web" or "internet" gives web, with "file" or "folder" gives
\* file (each read for a heading with keywords of that one group only), and
\* a heading with none of the seven keywords gives casual.
C18_Original ==
    (pc = "parsed" /\ Synthesized(parse_text)) =>
        \A k \in DOMAIN parse_result :
            LET kws == Headings(parse_text)[k].kws
                cap == Lower(parse_result[k][2].agent)
            IN  /\ (kws \cap CoderWords # {} /\ kws \cap (WebWords \cup FileWords) = {})
                       => cap = "coder"
                /\ (kws \cap WebWords # {} /\ kws \cap (CoderWords \cup FileWords) = {})
                       => cap = "web"
                /\ (kws \cap FileWords # {} /\ kws \cap (CoderWords \cup WebWords) = {})
                       => cap = "file"
                /\ kws \cap (CoderWords \cup WebWords \cup FileWords) = {}
                       => cap = "casual"

\* C18 amended: "python" counts with "code" and "script"; a heading with a
\* coder keyword gives coder, otherwise one with a web keyword gives web,
\* otherwise one with a file keyword gives file, and a heading with none of
\* the eight keywords gives casual.
C18_KeywordCapability ==
    (pc = "parsed" /\ Synthesized(parse_text)) =>
        \A k \in DOMAIN parse_result :
            LET kws   == Headings(parse_text)[k].kws
                cap   == Lower(parse_result[k][2].agent)
                coder == kws \cap (CoderWords \cup {"python"}) # {}
                web   == kws \cap WebWords # {}
                file  == kws \cap FileWords # {}
            IN  /\ coder => cap = "coder"
                /\ (~coder /\ web) => cap = "web"
                /\ (~coder /\ ~web /\ file) => cap = "file"
                /\ (~coder /\ ~web /\ ~file) => cap = "casual"

\* a heading with "python" only becomes a coder task
C18_Witness ==
    /\ pc = "parsed"
    /\ Synthesized(parse_text)
    /\ Headings(parse_text)[1].kws = {"python"}
    /\ parse_result[1][2].agent = "Coder"

\* C19: the ids of the tasks of a decoded plan are pairwise distinct.
C19_IdsPairwiseDistinct ==
    pc = "parsed" =>
        \A j, k \in DOMAIN parse_result :
            j # k => parse_result[j][2].id # parse_result[k][2].id

\* process() is entered
RunStarts == pc \in {"idle", "done", "fault"} /\ pc' = "make_plan"

\* C20: the Result Store is empty when a run starts, whatever an earlier
\* run left; within a run no step removes an id, and a completed dispatch
\* adds the id of its task.
C20_StoreOnlyGrows ==
    [][IF RunStarts
       THEN agents_work_result' = <<>>
       ELSE /\ DOMAIN agents_work_result \subseteq DOMAIN agents_work_result'
            /\ completed' = completed + 1 =>
                   Last(dispatched)[2].id \in DOMAIN agents_work_result']_vars

\* a second run, begun after a run that left answers, has recorded two
C20_Witness ==
    /\ carried
    /\ completed = 2
    /\ Cardinality(DOMAIN agents_work_result) = 2

\* C21: a run that returns after at least one completed dispatch, whether
\* the plan was worked off or a stop ended it, returns the value of the last
\* completed dispatch: the executor's raw answer followed by the success
\* marker if it reported success and by the failure marker otherwise.  It is
\* the value recorded for the task dispatched last.
C21_ReturnsLastAnswer ==
    (pc = "done" /\ completed >= 1) =>
        /\ ret \in {<<raw, IF success THEN "\nAgent succeeded with task."
                           ELSE "\nAgent failed with task (Error detected).">> :
                       raw \in RawAnswers}
        /\ ret = agents_work_result[Last(dispatched)[2].id]

\* a run ended by stop before its plan was worked off, after a dispatch
\* that reported failure
C21_Witness ==
    /\ pc = "done"
    /\ completed = 1
    /\ stop
    /\ i < steps
    /\ ~success
    /\ ret = <<"out", "\nAgent failed with task (Error detected).">>

\* the response yields a task: it has no marker and holds a decodable task
\* or, failing that, a heading line
YieldsTask(text) ==
    /\ ~text.marker
    /\ \/ HasDecodableTask(text)
       \/ \E k \in DOMAIN text.lines : IsTaskName(text.lines[k])

\* C23: the first response of a negotiation that yields a task is its last:
\* no model call follows it, make_plan has returned, and what it returned
\* is the plan decoded (or synthesized) from that response alone.
C23_FirstPlanAccepted ==
    \A k \in DOMAIN mp_log :
        YieldsTask(mp_log[k]) =>
            /\ k = Len(mp_log)
            /\ llm_calls = k
            /\ mp_done
            /\ mp_ret # <<>>
            /\ mp_ret = parse_agent_tasks(mp_log[k])

\* two failed attempts, then a plan synthesized from heading lines
C23_Witness ==
    /\ mp_done
    /\ Len(mp_log) = 3
    /\ Barren(mp_log[1])
    /\ Barren(mp_log[2])
    /\ mp_log[3] = HeadingText
    /\ Len(mp_ret) = 2

\* C24: the step that completes a dispatch, whatever its verdict, its plan
\* position and the stop flag, writes the answer under the task's id and
\* nothing else into the Result Store and invokes update_plan once for that
\* id, which finds the answer there; the index is incremented once, when
\* update_plan has returned, and by no other step.
C24_RecordReplanIncrement ==
    [][/\ completed' = completed + 1 =>
             LET id == Last(dispatched)[2].id
             IN  /\ pc = "dispatch"
                 /\ DOMAIN agents_work_result' = DOMAIN agents_work_result \cup {id}
                 /\ agents_work_result'[id] = answer'
                 /\ \A k \in DOMAIN agents_work_result \ {id} :
                        agents_work_result'[k] = agents_work_result[k]
                 /\ up_id' = id
                 /\ Len(replan_log') = Len(replan_log) + 1
                 /\ fault' = "none"
                 /\ pc' \in {"replan", "loop"}
       /\ completed' = completed =>
             /\ agents_work_result' = agents_work_result
             /\ Len(replan_log') = Len(replan_log)
       /\ Len(replan_log') = completed'
       /\ i' \in {i, i + 1}
       /\ i' = i + 1 <=> (pc \in {"dispatch", "replan"} /\ pc' = "loop")]_vars

\* a dispatch during which a stop was requested and that reported failure
\* has been recorded, replanned and counted
C24_Witness ==
    /\ pc = "loop"
    /\ stop_at = "dispatch"
    /\ ~success
    /\ completed = 1
    /\ Len(replan_log) = 1
    /\ i = 1
    /\ DOMAIN agents_work_result = {Last(dispatched)[2].id}

\* C25 as stated: when the loop ends without a stop request and without a
\* fault, the index equals the length of the working plan.
C25_Original ==
    (pc = "done" /\ ~stop) => i = Len(agents_tasks)

\* C25 amended: when the loop ends without a stop request and without a
\* fault, the index is the number of completed dispatches and is not below
\* the length of the working plan; it exceeds that length only if the
\* working plan is shorter than the number of tasks already dispatched.
C25_IndexAtLeastLength ==
    (pc = "done" /\ ~stop) =>
        /\ steps = Len(agents_tasks)
        /\ i >= Len(agents_tasks)
        /\ i = completed
        /\ i > Len(agents_tasks) => Len(agents_tasks) < Len(dispatched)

\* the second task's replan returned a plan of one task
C25_Witness ==
    /\ pc = "done"
    /\ ~stop
    /\ i = 2
    /\ Len(agents_tasks) = 1
    /\ Len(initial_plan) = 2

\* C26: a run whose stop was requested while the initial plan was being
\* negotiated, and whose negotiation returned a plan, returns normally
\* without dispatching a task.
C26_StopBeforeLoopReturns ==
    (stop_at = "make_plan" /\ initial_plan # <<>> /\ pc \notin {"make_plan", "loop"}) =>
        /\ pc = "done"
        /\ fault = "none"
        /\ dispatched = <<>>

\* C27: when update_plan composes its directive for a completed task, the
\* next task it names is the one at the position after that task's
\* position, and it uses the "last step" note exactly when that task is at
\* the last position, whatever the task's id is.
C27_NextTaskByPosition ==
    (caller = "direct" /\ next_task # NoNote) =>
        \A k \in DOMAIN agents_tasks :
            agents_tasks[k][2].id = up_id =>
                next_task = (IF k = Len(agents_tasks)
                             THEN [kind |-> "last"]
                             ELSE [kind |-> "next", name |-> agents_tasks[k + 1][1]])

\* some candidate block fails both parses
HasFailedBlock(text) ==
    \E b \in DOMAIN CandidateBlocks(text) : CandidateBlocks(text)[b].parse = "fail"

\* C28: parse_agent_tasks returns on every text without raising; a block
\* that fails both parses adds no task and, wherever it stands, the items of
\* the other blocks are decoded, one task per item in order.
C28_FailedBlockSkipped ==
    pc = "parsed" =>
        /\ fault = "none"
        /\ (HasFailedBlock(parse_text) /\ Len(PayloadItems(parse_text)) >= 1
                                       /\ AllHaveTask(PayloadItems(parse_text))) =>
               /\ Len(parse_result) = Len(PayloadItems(parse_text))
               /\ \A k \in DOMAIN parse_result :
                      parse_result[k][1] = PayloadItems(parse_text)[k].task

\* a failing block followed by a block with one item
C28_Witness ==
    /\ pc = "parsed"
    /\ Len(parse_text.blocks) = 2
    /\ parse_text.blocks[1] = FailBlock
    /\ Len(PayloadItems(parse_text)) = 1
    /\ AllHaveTask(PayloadItems(parse_text))
    /\ Len(parse_result) = 1
    /\ parse_result[1][2].id = "1"

\* the item makes the for loop of its block raise
Raises(item) ==
    \/ "nondict" \in DOMAIN item
    \/ "agent" \in DOMAIN item /\ item.agent = NotAString

HasTask(item) == "task" \in DOMAIN item

\* C29: in a payload none of whose items ends its block, the items that
\* lack "task" contribute nothing and all the others, before and after
\* them, are decoded one task each, in payload order.
C29_MissingTaskSkipped ==
    (pc = "parsed" /\ \A k \in DOMAIN PayloadItems(parse_text) :
                          ~Raises(PayloadItems(parse_text)[k])) =>
        LET kept == SelectSeq(PayloadItems(parse_text), HasTask)
        IN  Len(kept) >= 1 =>
                /\ Len(parse_result) = Len(kept)
                /\ \A k \in DOMAIN kept : parse_result[k][1] = kept[k].task

\* an item without "task" between two complete items
C29_Witness ==
    /\ pc = "parsed"
    /\ Len(PayloadItems(parse_text)) = 3
    /\ HasTask(PayloadItems(parse_text)[1])
    /\ ~Raises(PayloadItems(parse_text)[2])
    /\ ~HasTask(PayloadItems(parse_text)[2])
    /\ HasTask(PayloadItems(parse_text)[3])
    /\ Len(parse_result) = 2
    /\ parse_result[2][1] = PayloadItems(parse_text)[3].task

\* the items of a plan list, from item k on, up to the first that raises
RECURSIVE ReadItems(_, _)
ReadItems(items, k) ==
    IF k > Len(items) THEN <<>>
    ELSE IF Raises(items[k]) THEN <<>>
    ELSE (IF HasTask(items[k]) THEN <<items[k]>> ELSE <<>>) \o ReadItems(items, k + 1)

\* what is read from the blocks from block k on
RECURSIVE ReadBlocks(_, _)
ReadBlocks(blocks, k) ==
    IF k > Len(blocks) THEN <<>>
    ELSE (IF blocks[k].parse = "ok" /\ "plan" \in DOMAIN blocks[k]
          THEN ReadItems(blocks[k].plan, 1) ELSE <<>>)
         \o ReadBlocks(blocks, k + 1)

\* C30: an item that is no object, or whose agent is no string, ends the
\* decoding of its block: the result holds the tasks of the items before it
\* in that block and of the earlier and later blocks, none of the items
\* after it in its block, and nothing is raised.
C30_NonObjectEndsBlock ==
    pc = "parsed" =>
        LET read == ReadBlocks(CandidateBlocks(parse_text), 1)
        IN  /\ fault = "none"
            /\ Len(read) >= 1 =>
                   /\ Len(parse_result) = Len(read)
                   /\ \A k \in DOMAIN read : parse_result[k][1] = read[k].task

\* a complete item, then an item whose agent is no string, then a complete
\* item that is lost
C30_Witness ==
    /\ pc = "parsed"
    /\ Len(PayloadItems(parse_text)) = 3
    /\ HasTask(PayloadItems(parse_text)[1])
    /\ ~Raises(PayloadItems(parse_text)[1])
    /\ "nondict" \notin DOMAIN PayloadItems(parse_text)[2]
    /\ Raises(PayloadItems(parse_text)[2])
    /\ HasTask(PayloadItems(parse_text)[3])
    /\ ~Raises(PayloadItems(parse_text)[3])
    /\ Len(parse_result) = 1
    /\ parse_result[1][1] = PayloadItems(parse_text)[1].task

\* C22: at no time is more than one /query request being processed by the
\* interaction.
C22_AtMostOneQueryProcessed ==
    pc = "api" => Cardinality(Thinking) <= 1

\* C31: from the first loop iteration until the run ends the working plan
\* is not empty, and no replan step makes it empty.
C31_WorkingPlanNonEmpty ==
    (pc \in {"loop", "dispatch", "replan"} \/ dispatched # <<>>) =>
        /\ agents_tasks # <<>>
        /\ steps = Len(agents_tasks)
        /\ steps >= 1

\* the replan of the second task negotiated the empty plan and the loop
\* still holds two tasks
C31_Witness ==
    /\ pc = "loop"
    /\ Len(replan_log) = 2
    /\ replan_log[2] = "no_update"
    /\ plan = <<>>
    /\ Len(agents_tasks) = 2
    /\ i = 2

\* C34: the first exception of llm_request leaves make_plan and the run at
\* once, without another attempt; during a replan the store then holds the
\* answer of the task just completed, and after the fault nothing is
\* dispatched and the model is not called again.
C34_ModelFaultAborts ==
    [][/\ (fault = "none" /\ fault' = "ModelFault") =>
              /\ pc' = "fault"
              /\ llm_calls' = llm_calls + 1
              /\ mp_log' = mp_log
              /\ ~mp_done'
              /\ ret' = <<>>
              /\ agents_work_result' = agents_work_result
              /\ dispatched' = dispatched
              /\ i' = i
              /\ pc = "replan" =>
                     /\ completed = Len(dispatched)
                     /\ Last(dispatched)[2].id \in DOMAIN agents_work_result
                     /\ agents_work_result[Last(dispatched)[2].id] = answer
       /\ fault = "ModelFault" =>
              /\ pc' = "fault"
              /\ dispatched' = dispatched
              /\ llm_calls' = llm_calls]_vars

\* the model raised at the second attempt of the first task's replan
C34_Witness ==
    /\ pc = "fault"
    /\ fault = "ModelFault"
    /\ Len(replan_log) = 1
    /\ Len(mp_log) = 1
    /\ llm_calls = 2
    /\ completed = 1
    /\ i = 0
    /\ DOMAIN agents_work_result = {Last(dispatched)[2].id}
    /\ Len(agents_tasks) = 2

\* C32: in a run whose model and executor calls all return and whose
\* replans never return a plan longer than the plan they replace, there are
\* never more dispatches than the initial plan has tasks, and the run ends.
C32_BoundedRun ==
    /\ [](Len(dispatched) <= Len(initial_plan))
    /\ <>(pc \in {"done", "fault"})

\* a run of two dispatches on a plan of two tasks, replaced on the way by
\* another plan of two tasks
C32_Witness ==
    /\ pc = "done"
    /\ ~stop
    /\ Len(initial_plan) = 2
    /\ Len(dispatched) = 2
    /\ replan_log = <<"replaced", "no_update">>

C35_OneEntryPerDispatch ==
    Cardinality(DOMAIN agents_work_result) = completed

\* the /query requests whose handler begins in this step
Arriving == {q \in Queries : handlers[q] = "new" /\ handlers'[q] # "new"}

\* the /query requests whose handler returns from think_wrapper in this step
Returning == {q \in Queries : handlers[q] = "thinking" /\ handlers'[q] # "thinking"}

\* C36: a /query request that arrives while is_generating is true is
\* answered 429 without entering the interaction, and leaves is_generating
\* and the query response history as they were.
C36_BusyRejectedUnchanged ==
    [][\A q \in Arriving :
           is_generating =>
               /\ handlers'[q] = "429"
               /\ Thinking' = Thinking
               /\ is_generating'
               /\ query_resp_history' = query_resp_history
               /\ current_agent' = current_agent]_vars

\* one request was rejected while another is still inside the interaction
C36_Witness ==
    /\ pc = "api"
    /\ \E q \in Queries : handlers[q] = "429" /\ content[q] = EmptyAnswer
    /\ Thinking # {}
    /\ is_generating
    /\ query_resp_history = <<>>

\* C37: a /query request that was accepted leaves is_generating false when
\* its handler returns, with status 200, 400 or 500; once no accepted request
\* is left inside its handler is_generating is false, and a request arriving
\* then is accepted, not answered 429.
C37_FlagClearedOnReturn ==
    [][/\ \A q \in Returning :
              /\ handlers'[q] \in {"200", "400", "500"}
              /\ ~is_generating'
       /\ Thinking = {} => ~is_generating
       /\ \A q \in Arriving : Thinking = {} => handlers'[q] = "thinking"]_vars

\* after a request that raised and a request that reported no success, a
\* third one is inside the interaction
C37_Witness ==
    /\ pc = "api"
    /\ \E q1, q2, q3 \in Queries :
           /\ handlers[q1] = "500"
           /\ handlers[q2] = "400"
           /\ handlers[q3] = "thinking"
    /\ is_generating

\* C38: when processing a query raises, the handler answers with status 500
\* and the generic message, and appends nothing to the query response
\* history; status 500 is given for no other reason.
C38_RaiseAnswered500 ==
    [][\A q \in Returning :
           handlers'[q] = "500" <=>
               /\ content'[q] = "An unexpected error occurred processing the query."
               /\ query_resp_history' = query_resp_history]_vars

\* a request answered 500 after an earlier one was answered 200
C38_Witness ==
    /\ pc = "api"
    /\ \E q \in Queries :
           /\ handlers[q] = "500"
           /\ content[q] = "An unexpected error occurred processing the query."
    /\ Len(query_resp_history) = 1
    /\ Thinking = {}

====
